---- MODULE Spec2Model ----
(***************************************************************************)
(* A model of the text-summariser command line tool: the length heuristic  *)
(* (auto_lengths), the chunker (chunk_text), the CSV reader                *)
(* (read_csv_file), the loader (load_input and read_url), the              *)
(* summarisation driver (summarise_text) and the command line entry point  *)
(* (main).                                                                 *)
(*                                                                         *)
(* A text is a sequence of one-character strings.  The external            *)
(* collaborators (file system, HTTP client, optional libraries, tokenizer, *)
(* summarisation pipeline) are nondeterministic choices over the outcomes  *)
(* they can produce.                                                       *)
(***************************************************************************)
EXTENDS Integers, Sequences, FiniteSets, TLC

VARIABLES
    lens,       \* one call of auto_lengths: its arguments, locals and result
    chunker,    \* one call of chunk_text: its arguments and result
    csvrun,     \* one call of read_csv_file: the rows read and the result
    args,       \* the parsed command line (cli.py build_parser)
    pc,         \* position of the run: main -> summarise -> ... -> done/exit
    raw,        \* the text the selected input source yielded, if it yielded one
    text,       \* main's text / summarise_text's text argument
    consulted,  \* the input sources load_input has read
    ops,        \* the fallible operations attempted so far, in order
    raised,     \* the errors raised so far, in order
    caught,     \* the errors swallowed by an except clause
    exitKind,   \* how the process ended: "none", "ok", "SystemExit", "exception"
    message,    \* the message the process ended with, "" if none
    drv,        \* summarise_text's locals: parts, partials, too_long, result
    calls,      \* the calls made to the summarisation pipeline, in order
    stdout,     \* what was printed to standard output
    outfile     \* what was written to the output file, if anything

vars == << lens, chunker, csvrun, args, pc, raw, text, consulted, ops, raised,
           caught, exitKind, message, drv, calls, stdout, outfile >>

lenVars == << lens >>
chunkVars == << chunker >>
csvVars == << csvrun >>
cliVars == << args, pc, raw, text, consulted, ops, raised, caught, exitKind,
              message, drv, calls, stdout, outfile >>

\* Optional values: None is the empty sequence, a given value v is << v >>.
\* Texts, paths and URLs are sequences too, the empty string being << >>.
Nothing == << >>
Some(v) == << v >>

(***************************************************************************)
(* Bounds of the model.                                                    *)
(***************************************************************************)
MaxWords == 500     \* auto_lengths is called on texts of 0..MaxWords words
MaxLen == 4         \* chunk_text is called on every text of at most MaxLen characters
MaxTarget == 3      \* ... with every target_words in 1..MaxTarget
MaxRows == 2        \* read_csv_file reads files of at most MaxRows rows
MaxCells == 2       \* ... of at most MaxCells cells each
MaxChunks == 2      \* summarise_text is called on texts of up to MaxChunks full chunks (+1 word)

(***************************************************************************)
(* Characters and strings.                                                 *)
(***************************************************************************)
\* str.split() and str.strip() treat these as whitespace.
IsSpace(c) == c \in {" ", "\n", "\t"}

\* The regular expression class \w, on the characters the model uses: the
\* letters and the underscore, but neither whitespace nor "-".
IsWordChar(c) == c \in {"a", "b", "s", "t", "w", "_"}

Max(a, b) == IF a >= b THEN a ELSE b
Min(a, b) == IF a <= b THEN a ELSE b

\* n copies of the word "w" separated by the one-character string sep.
MakeText(n, sep) ==
    [i \in 1..(IF n = 0 THEN 0 ELSE 2 * n - 1) |-> IF i % 2 = 1 THEN "w" ELSE sep]

\* len(re.findall(r"\w+", text)): the number of maximal runs of word characters.
CountWords(t) ==
    Cardinality({i \in 1..Len(t) :
        IsWordChar(t[i]) /\ (i = 1 \/ ~IsWordChar(t[i - 1]))})

\* str.split(): the maximal runs of non-whitespace characters, in order.
\* The range lo..hi is split in two halves; a word that straddles the middle
\* is glued back together.
RECURSIVE SplitRange(_, _, _)
SplitRange(t, lo, hi) ==
    IF lo > hi THEN << >>
    ELSE IF lo = hi THEN (IF IsSpace(t[lo]) THEN << >> ELSE << << t[lo] >> >>)
    ELSE LET mid == (lo + hi) \div 2
             L == SplitRange(t, lo, mid)
             R == SplitRange(t, mid + 1, hi)
         IN  IF ~IsSpace(t[mid]) /\ ~IsSpace(t[mid + 1])
             THEN SubSeq(L, 1, Len(L) - 1) \o << L[Len(L)] \o R[1] >> \o Tail(R)
             ELSE L \o R

split(t) == SplitRange(t, 1, Len(t))

\* sep.join(ws[lo..hi]) for a one-character separator.
RECURSIVE JoinRange(_, _, _, _)
JoinRange(ws, lo, hi, sep) ==
    IF lo > hi THEN << >>
    ELSE IF lo = hi THEN ws[lo]
    ELSE LET mid == (lo + hi) \div 2
         IN  JoinRange(ws, lo, mid, sep) \o << sep >> \o JoinRange(ws, mid + 1, hi, sep)

join(sep, ws) == JoinRange(ws, 1, Len(ws), sep)

\* str.strip(): drop the leading and trailing whitespace.
strip(t) ==
    LET keep == {i \in 1..Len(t) : ~IsSpace(t[i])}
    IN  IF keep = {} THEN << >>
        ELSE SubSeq(t, CHOOSE i \in keep : \A j \in keep : i <= j,
                       CHOOSE i \in keep : \A j \in keep : i >= j)

(***************************************************************************)
(* utils.py: auto_lengths                                                  *)
(***************************************************************************)
\* int(n * 0.6 + 30) and int(n * 0.3 + 12): for n >= 0 the float product,
\* truncated, is the integer quotient.
ScaledMax(n) == (6 * n + 300) \div 10
ScaledMin(n) == (3 * n + 120) \div 10

\* Mutant: the lower clamp of max_len copied to min_len.
auto_lengths_branch_floor32(n, short_cut) ==
    IF short_cut \/ n < 300
    THEN LET max_len == Max(32, Min(160, ScaledMax(n)))
         IN  << max_len, Max(32, Min(max_len - 8, ScaledMin(n))) >>
    ELSE << 180, 60 >>

\* Mutant: min_len loses its lower clamp.
auto_lengths_branch_nofloor(n, short_cut) ==
    IF short_cut \/ n < 300
    THEN LET max_len == Max(32, Min(160, ScaledMax(n)))
         IN  << max_len, Min(max_len - 8, ScaledMin(n)) >>
    ELSE << 180, 60 >>

\* Mutant: the short-bias flag is ignored.
auto_lengths_branch_noflag(n, short_cut) ==
    IF n < 300
    THEN LET max_len == Max(32, Min(160, ScaledMax(n)))
         IN  << max_len, Max(16, Min(max_len - 8, ScaledMin(n))) >>
    ELSE << 180, 60 >>

\* Lines 7-11: << max_len, min_len >> before the final check.
auto_lengths_branch(n, short_cut) ==
    IF short_cut \/ n < 300
    THEN LET max_len == Max(32, Min(160, ScaledMax(n)))
         IN  << max_len, Max(16, Min(max_len - 8, ScaledMin(n))) >>
    ELSE << 180, 60 >>

\* Lines 12-13: the final check; fixed tells whether it replaced min_len.
auto_lengths_check(pre) ==
    IF pre[2] >= pre[1]
    THEN [out |-> << pre[1], Max(16, pre[1] \div 2) >>, fixed |-> TRUE]
    ELSE [out |-> pre, fixed |-> FALSE]

\* auto_lengths(text, short_cut) = (max_len, min_len)
auto_lengths(t, short_cut) ==
    auto_lengths_check(auto_lengths_branch(CountWords(t), short_cut)).out

(***************************************************************************)
(* utils.py: chunk_text                                                    *)
(***************************************************************************)
\* Mutant: the size test is > instead of >=.
chunk_step_gt(st, w, target_words) ==
    LET cur == Append(st.cur, w)
    IN  IF Len(cur) > target_words
        THEN [chunks |-> Append(st.chunks, join(" ", cur)), cur |-> << >>]
        ELSE [chunks |-> st.chunks, cur |-> cur]

\* Lines 21-24: one iteration of the loop over the words.
chunk_step(st, w, target_words) ==
    LET cur == Append(st.cur, w)
    IN  IF Len(cur) >= target_words
        THEN [chunks |-> Append(st.chunks, join(" ", cur)), cur |-> << >>]
        ELSE [chunks |-> st.chunks, cur |-> cur]

\* Lines 20-24: the loop body applied to words[lo], ..., words[hi] in order,
\* starting from the loop state st.  The state after the first half is
\* computed before the second half starts.
RECURSIVE chunk_loop(_, _, _, _, _)
chunk_loop(words, lo, hi, st, target_words) ==
    IF lo > hi THEN st
    ELSE IF lo = hi THEN chunk_step(st, words[lo], target_words)
    ELSE LET mid == (lo + hi) \div 2
             half == chunk_loop(words, lo, mid, st, target_words)
         IN  IF Len(half.cur) >= 0
             THEN chunk_loop(words, mid + 1, hi, half, target_words)
             ELSE half

\* Mutant: the words left over after the loop are dropped.
chunk_text_noflush(t, target_words) ==
    LET words == split(t)
    IN  chunk_loop(words, 1, Len(words), [chunks |-> << >>, cur |-> << >>],
                   target_words).chunks

\* chunk_text(text, target_words) = the list of chunks
chunk_text(t, target_words) ==
    LET words == split(t)
        st == chunk_loop(words, 1, Len(words), [chunks |-> << >>, cur |-> << >>],
                         target_words)
    IN  IF st.cur # << >> THEN Append(st.chunks, join(" ", st.cur)) ELSE st.chunks

(***************************************************************************)
(* loaders.py: read_csv_file                                               *)
(***************************************************************************)
NonBlank(cell) == strip(cell) # << >>

\* Line 43: " ".join(cell.strip() for cell in row if cell.strip())
csv_line(row) ==
    LET kept == SelectSeq(row, NonBlank)
    IN  join(" ", [i \in 1..Len(kept) |-> strip(kept[i])])

\* Lines 41-43: the loop over the rows the csv reader yields.
RECURSIVE csv_loop(_, _, _)
csv_loop(rows, i, buf) ==
    IF i > Len(rows) THEN buf
    ELSE csv_loop(rows, i + 1, Append(buf, csv_line(rows[i])))

\* Mutant: rows without a non-blank cell are skipped.
read_csv_file_skipblank(rows) ==
    LET kept == SelectSeq(rows, LAMBDA r : SelectSeq(r, NonBlank) # << >>)
    IN  join("\n", csv_loop(kept, 1, << >>))

\* read_csv_file(path), on the rows csv.reader yields for the file.
read_csv_file(rows) == join("\n", csv_loop(rows, 1, << >>))

(***************************************************************************)
(* The inputs of the three pure functions.                                 *)
(***************************************************************************)
SeqsUpTo(S, n) == UNION {[1..k -> S] : k \in 0..n}

\* tests/test_utils.py: 1000 words chunked by 200.
TestWords == 1000
TestTarget == 200

LengthTexts == {MakeText(n, sep) : n \in 0..MaxWords, sep \in {" ", "-"}}

ChunkInputs ==
    {<< t, k >> : t \in SeqsUpTo({"a", "b", " ", "\n"}, MaxLen), k \in 1..MaxTarget}
    \cup {<< MakeText(TestWords, " "), TestTarget >>,
          << MakeText(TestWords + 1, " "), TestTarget >>}

CsvCells == {<< >>, << " " >>, << "a" >>, << " ", "b" >>}
CsvFiles == SeqsUpTo(SeqsUpTo(CsvCells, MaxCells), MaxRows)

IdleLens == [pc |-> "idle"]
IdleChunker == [pc |-> "idle"]
IdleCsv == [pc |-> "idle"]
IdleCli ==
    /\ args = [idle |-> TRUE] /\ pc = "idle" /\ raw = Nothing /\ text = << >>
    /\ consulted = {} /\ ops = << >> /\ raised = << >> /\ caught = << >>
    /\ exitKind = "none" /\ message = "" /\ drv = [idle |-> TRUE]
    /\ calls = << >> /\ stdout = << >> /\ outfile = Nothing

(***************************************************************************)
(* auto_lengths called once on a text and a flag.                          *)
(***************************************************************************)
InitLengths ==
    /\ lens \in {[pc |-> "call", text |-> t, short_cut |-> s, n |-> 0,
                   pre |-> << 0, 0 >>, out |-> << 0, 0 >>, fixed |-> FALSE] :
                     t \in LengthTexts, s \in BOOLEAN}
    /\ chunker = IdleChunker /\ csvrun = IdleCsv /\ IdleCli

CallAutoLengths ==
    /\ lens.pc = "call"
    /\ LET n == CountWords(lens.text)
           pre == auto_lengths_branch(n, lens.short_cut)
       IN  lens' = [lens EXCEPT !.pc = "done", !.n = n, !.pre = pre,
                                !.fixed = auto_lengths_check(pre).fixed,
                                !.out = auto_lengths(lens.text, lens.short_cut)]
    /\ UNCHANGED << chunkVars, csvVars, cliVars >>

NextLengths == CallAutoLengths
SpecLengths == InitLengths /\ [][NextLengths]_vars

(***************************************************************************)
(* chunk_text called once on a text and a target.                          *)
(***************************************************************************)
InitChunk ==
    /\ chunker \in {[pc |-> "call", text |-> in[1], target_words |-> in[2],
                      out |-> << >>] : in \in ChunkInputs}
    /\ lens = IdleLens /\ csvrun = IdleCsv /\ IdleCli

CallChunkText ==
    /\ chunker.pc = "call"
    /\ chunker' = [chunker EXCEPT !.pc = "done",
                       !.out = chunk_text(chunker.text, chunker.target_words)]
    /\ UNCHANGED << lenVars, csvVars, cliVars >>

NextChunk == CallChunkText
SpecChunk == InitChunk /\ [][NextChunk]_vars

(***************************************************************************)
(* read_csv_file called once on a file.                                    *)
(***************************************************************************)
InitCsv ==
    /\ csvrun \in {[pc |-> "call", rows |-> f, out |-> << >>] : f \in CsvFiles}
    /\ lens = IdleLens /\ chunker = IdleChunker /\ IdleCli

CallReadCsv ==
    /\ csvrun.pc = "call"
    /\ csvrun' = [csvrun EXCEPT !.pc = "done", !.out = read_csv_file(csvrun.rows)]
    /\ UNCHANGED << lenVars, chunkVars, cliVars >>

NextCsv == CallReadCsv
SpecCsv == InitCsv /\ [][NextCsv]_vars

(***************************************************************************)
(* loaders.py: _opt_import, the readers, read_url, load_input              *)
(***************************************************************************)
\* Python truthiness of an Optional[str]: given and not the empty string.
Truthy(opt) == opt # Nothing /\ opt[1] # << >>

\* A fallible operation that was attempted, and an error it raised.
Op(name, what, n, ok) == [op |-> name, what |-> what, n |-> n, ok |-> ok]
Err(kind, name, msg) == [kind |-> kind, op |-> name, msg |-> msg]

\* What a loader call did: the operations it attempted, the errors raised
\* and those swallowed on the way, the text the source yielded (data) and
\* the value returned (value; Nothing when the call ended by raising).
Returned(o, r, v) ==
    [ops |-> o, raised |-> r, caught |-> r, data |-> Some(v), value |-> Some(v)]
Raised(o, r, c, e) ==
    [ops |-> o, raised |-> Append(r, e), caught |-> c, data |-> Nothing,
     value |-> Nothing]

\* _opt_import(mod): the import and, when the module is missing, its ImportError.
ImportOp(mod, installed) == Op("import", mod, 0, installed)
ImportErr(mod) == Err("ImportError", mod, "Missing optional dependency")

\* str.lower() on the suffixes the model uses.
Lower(suffix) == IF suffix = ".PDF" THEN ".pdf" ELSE suffix

\* Mutant: raise_for_status() is left out, so a non-success response is parsed.
read_url_nostatus(e) ==
    IF ~e.requests
    THEN Raised(<< ImportOp("requests", FALSE) >>, << >>, << >>, ImportErr("requests"))
    ELSE IF e.status = "down"
    THEN Raised(<< ImportOp("requests", TRUE), Op("http_get", "", 0, FALSE) >>, << >>, << >>,
                Err("ConnectionError", "http_get", "connection failed"))
    ELSE LET got == << ImportOp("requests", TRUE), Op("http_get", "", 0, e.status = "ok") >>
         IN  IF e.trafilatura /\ Truthy(e.extracted) /\ strip(e.extracted[1]) # << >>
             THEN Returned(Append(got, ImportOp("trafilatura", TRUE)), << >>,
                           strip(e.extracted[1]))
             ELSE LET tried == Append(got, ImportOp("trafilatura", e.trafilatura))
                      missed == IF e.trafilatura THEN << >>
                                ELSE << ImportErr("trafilatura") >>
                  IN  IF ~e.bs4
                      THEN Raised(Append(tried, ImportOp("bs4", FALSE)), missed,
                                  missed, ImportErr("bs4"))
                      ELSE Returned(Append(tried, ImportOp("bs4", TRUE)), missed, e.page)

\* read_url(url), in the environment e: whether requests, trafilatura and
\* bs4 are installed, the response status, what trafilatura extracts and the
\* text of the parsed page.
read_url(e) ==
    IF ~e.requests
    THEN Raised(<< ImportOp("requests", FALSE) >>, << >>, << >>, ImportErr("requests"))
    ELSE IF e.status = "down"
    THEN Raised(<< ImportOp("requests", TRUE), Op("http_get", "", 0, FALSE) >>, << >>, << >>,
                Err("ConnectionError", "http_get", "connection failed"))
    ELSE IF e.status = "bad"
    THEN Raised(<< ImportOp("requests", TRUE), Op("http_get", "", 0, FALSE) >>, << >>, << >>,
                Err("HTTPError", "http_get", "non-success status"))
    ELSE LET got == << ImportOp("requests", TRUE), Op("http_get", "", 0, TRUE) >>
         IN  IF e.trafilatura /\ Truthy(e.extracted) /\ strip(e.extracted[1]) # << >>
             THEN Returned(Append(got, ImportOp("trafilatura", TRUE)), << >>,
                           strip(e.extracted[1]))
             ELSE \* except ImportError: pass, or an empty extraction: fall back to bs4
                  LET tried == Append(got, ImportOp("trafilatura", e.trafilatura))
                      missed == IF e.trafilatura THEN << >>
                                ELSE << ImportErr("trafilatura") >>
                  IN  IF ~e.bs4
                      THEN Raised(Append(tried, ImportOp("bs4", FALSE)), missed,
                                  missed, ImportErr("bs4"))
                      ELSE Returned(Append(tried, ImportOp("bs4", TRUE)), missed, e.page)

\* A reader that needs the optional module mod and yields v when it is there.
ReadWith(found, mod, installed, v) ==
    IF installed
    THEN Returned(Append(found, ImportOp(mod, TRUE)), << >>, v)
    ELSE Raised(Append(found, ImportOp(mod, FALSE)), << >>, << >>, ImportErr(mod))

\* Lines 82-99 of load_input: the file branch.  path is << stem, suffix >>.
read_file(path, e) ==
    IF ~e.exists
    THEN Raised(<< Op("exists", "", 0, FALSE) >>, << >>, << >>,
                Err("FileNotFoundError", "exists", "File not found"))
    ELSE LET found == << Op("exists", "", 0, TRUE) >>
             ext == Lower(path[2])
         IN  IF ext = ".txt" THEN Returned(found, << >>, e.content)
             ELSE IF ext = ".md" THEN Returned(found, << >>, e.content)
             ELSE IF ext = ".pdf"
                  THEN ReadWith(found, "pdfplumber", e.pdfplumber, strip(e.content))
             ELSE IF ext = ".docx" THEN ReadWith(found, "docx", e.docx, e.content)
             ELSE IF ext = ".csv" THEN Returned(found, << >>, read_csv_file(e.rows))
             ELSE IF ext \in {".html", ".htm"} THEN ReadWith(found, "bs4", e.bs4, e.content)
             ELSE Returned(found, << >>, e.content)

\* Lines 104-109 of load_input: all of standard input, or SystemExit.
read_stdin(e) ==
    IF strip(e.stdin) # << >>
    THEN Returned(<< >>, << >>, e.stdin)
    ELSE [Raised(<< >>, << >>, << >>,
                 Err("SystemExit", "load_input", "No input provided."))
            EXCEPT !.data = Some(e.stdin)]

\* Mutant: the file is tried before the URL.
load_input_source_filefirst(text_arg, file_arg, url_arg) ==
    IF Truthy(file_arg) THEN "file"
    ELSE IF Truthy(url_arg) THEN "url"
    ELSE IF Truthy(text_arg) THEN "text"
    ELSE "stdin"

\* The branch load_input takes: the tests of lines 79, 82 and 101, in order.
load_input_source(text_arg, file_arg, url_arg) ==
    IF Truthy(url_arg) THEN "url"
    ELSE IF Truthy(file_arg) THEN "file"
    ELSE IF Truthy(text_arg) THEN "text"
    ELSE "stdin"

\* load_input(text_arg, file_arg, url_arg), in the environment e.
load_input(text_arg, file_arg, url_arg, e) ==
    LET src == load_input_source(text_arg, file_arg, url_arg)
    IN  IF src = "url" THEN read_url(e)
        ELSE IF src = "file" THEN read_file(file_arg[1], e)
        ELSE IF src = "text" THEN Returned(<< >>, << >>, text_arg[1])
        ELSE read_stdin(e)

(***************************************************************************)
(* cli.py: main, up to the call of summarise_text                          *)
(***************************************************************************)
\* Mutant: the emptiness test is made on the text before it is stripped.
main_check_unstripped(loaded) ==
    IF loaded = << >>
    THEN [exit |-> TRUE, text |-> << >>]
    ELSE [exit |-> FALSE, text |-> strip(loaded)]

\* Lines 33-35: text = load_input(...).strip(); if not text: raise SystemExit
main_check(loaded) ==
    LET t == strip(loaded)
    IN  [exit |-> t = << >>, text |-> t]

(***************************************************************************)
(* summariser.py: summarise_text                                           *)
(***************************************************************************)
\* getattr(tokenizer, "model_max_length", 1024)
DefaultMaxTokens == 1024

\* chunk_text(text, target_words=350)
ChunkWords == 350

\* The keyword arguments of one call of the pipeline.
summarizer_call(input, bounds, num_beams, no_repeat) ==
    [input |-> input, max_length |-> bounds[1], min_length |-> bounds[2],
     do_sample |-> FALSE, num_beams |-> num_beams,
     no_repeat_ngram_size |-> no_repeat, early_stopping |-> TRUE]

\* Line 16: len(tokenizer.encode(text)) > max_tokens
too_long(tokens, max_tokens) == tokens > max_tokens

\* Lines 44-52: the call on the whole text.
single_call(t, a) ==
    summarizer_call(t, auto_lengths(t, a.short), a.beams, a.no_repeat)

\* Lines 20-29: the call on one chunk.
chunk_call(part, a) ==
    summarizer_call(part, auto_lengths(part, a.short), a.beams, a.no_repeat)

\* Mutant: the final pass uses the beams and no-repeat size as given.
final_call_asgiven(partials, a) ==
    LET combined == join(" ", partials)
    IN  summarizer_call(combined, auto_lengths(combined, TRUE), a.beams, a.no_repeat)

\* Lines 31-41: the final pass over the joined partial summaries.
final_call(partials, a) ==
    LET combined == join(" ", partials)
    IN  summarizer_call(combined, auto_lengths(combined, TRUE),
                        Max(4, a.beams), Max(a.no_repeat, 3))

(***************************************************************************)
(* The run of the command line tool.                                       *)
(***************************************************************************)
\* The texts a source can yield, the summaries the pipeline can produce.
CliTexts == {<< >>, << " " >>, << " ", "a", " ", "b", "\n" >>}
Summaries == {<< "s" >>, << "s", " ", "t" >>}
CliCsvFiles == {<< >>, << << << "a" >>, << " " >> >>, << >> >>}

Suffixes == {".txt", ".md", ".pdf", ".PDF", ".docx", ".csv", ".html", ".htm", ".log", ""}

NoEnv ==
    [requests |-> TRUE, status |-> "ok", trafilatura |-> TRUE, extracted |-> Nothing,
     bs4 |-> TRUE, page |-> << >>, exists |-> TRUE, pdfplumber |-> TRUE,
     docx |-> TRUE, content |-> << >>, rows |-> << >>, stdin |-> << >>]

\* The environments that differ in what the branch src looks at.
Envs(src) ==
    IF src = "url"
    THEN {[NoEnv EXCEPT !.requests = rq, !.status = st, !.trafilatura = tr,
                        !.extracted = ex, !.bs4 = bs, !.page = pg] :
            rq \in BOOLEAN, st \in {"ok", "bad", "down"}, tr \in BOOLEAN,
            ex \in {Nothing} \cup {Some(t) : t \in CliTexts}, bs \in BOOLEAN,
            pg \in CliTexts}
    ELSE IF src = "file"
    THEN {[NoEnv EXCEPT !.exists = ex, !.pdfplumber = pp, !.docx = dx, !.bs4 = bs,
                        !.content = ct, !.rows = rw] :
            ex \in BOOLEAN, pp \in BOOLEAN, dx \in BOOLEAN, bs \in BOOLEAN,
            ct \in CliTexts, rw \in CliCsvFiles}
    ELSE IF src = "stdin"
    THEN {[NoEnv EXCEPT !.stdin = t] : t \in CliTexts}
    ELSE {NoEnv}

CliArgs ==
    [text : {Nothing} \cup {Some(t) : t \in CliTexts},
     file : {Nothing, Some(<< >>)} \cup {Some(<< "f", sfx >>) : sfx \in Suffixes},
     url : {Nothing, Some(<< >>), Some(<< "u" >>)},
     beams : {2, 4}, no_repeat : {3}, short : BOOLEAN,
     out : {Nothing, Some(<< "o" >>)}]

Init ==
    /\ args \in CliArgs
    /\ pc = "main" /\ raw = Nothing /\ text = << >> /\ consulted = {}
    /\ ops = << >> /\ raised = << >> /\ caught = << >>
    /\ exitKind = "none" /\ message = ""
    /\ drv = [idle |-> TRUE] /\ calls = << >>
    /\ stdout = << >> /\ outfile = Nothing
    /\ lens = IdleLens /\ chunker = IdleChunker /\ csvrun = IdleCsv

\* The exit status of the process: 0 after main returns, 1 after SystemExit
\* with a message or an uncaught exception.
ExitCode(kind) == IF kind = "ok" THEN 0 ELSE 1

\* An uncaught exception or SystemExit ends the process.
Die(e) ==
    /\ pc' = "exit"
    /\ exitKind' = IF e.kind = "SystemExit" THEN "SystemExit" ELSE "exception"
    /\ message' = e.msg

\* main, lines 32-35: load_input, strip, the emptiness test.
LoadInput ==
    /\ pc = "main"
    /\ LET src == load_input_source(args.text, args.file, args.url)
       IN  \E e \in Envs(src) :
             LET r == load_input(args.text, args.file, args.url, e)
                 c == main_check(r.value[1])
             IN  /\ consulted' = {src}
                 /\ ops' = r.ops
                 /\ caught' = r.caught
                 /\ raw' = r.data
                 /\ IF r.value = Nothing
                    THEN /\ raised' = r.raised
                         /\ Die(r.raised[Len(r.raised)])
                         /\ text' = text
                    ELSE IF c.exit
                    THEN /\ raised' = Append(r.raised,
                               Err("SystemExit", "main", "Input is empty after parsing."))
                         /\ Die(Err("SystemExit", "main", "Input is empty after parsing."))
                         /\ text' = c.text
                    ELSE /\ raised' = r.raised
                         /\ pc' = "summarise"
                         /\ text' = c.text
                         /\ UNCHANGED << exitKind, message >>
    /\ UNCHANGED << args, drv, calls, stdout, outfile, lenVars, chunkVars, csvVars >>

\* summarise_text, lines 9-17: load the pipeline and the tokenizer, compute
\* the bounds, count the tokens, and split the text when it is too long.
SummariseStart ==
    /\ pc = "summarise"
    /\ \/ \E failed \in {"pipeline", "tokenizer"} :
            /\ ops' = ops \o (IF failed = "pipeline"
                              THEN << Op("load", "pipeline", 0, FALSE) >>
                              ELSE << Op("load", "pipeline", 0, TRUE),
                                      Op("load", "tokenizer", 0, FALSE) >>)
            /\ raised' = Append(raised, Err("OSError", "load", "cannot load model"))
            /\ Die(Err("OSError", "load", "cannot load model"))
            /\ UNCHANGED drv
       \/ \E max_tokens \in {512, DefaultMaxTokens} :
          \E tokens \in {max_tokens, max_tokens + 1} :
            /\ ops' = ops \o << Op("load", "pipeline", 0, TRUE),
                                Op("load", "tokenizer", 0, TRUE) >>
            /\ drv' = [max_tokens |-> max_tokens, tokens |-> tokens,
                       chunked |-> too_long(tokens, max_tokens),
                       parts |-> IF too_long(tokens, max_tokens)
                                 THEN chunk_text(text, ChunkWords) ELSE << >>,
                       partials |-> << >>, result |-> << >>]
            /\ pc' = IF too_long(tokens, max_tokens) THEN "chunks" ELSE "single"
            /\ UNCHANGED << raised, exitKind, message >>
    /\ UNCHANGED << args, raw, text, consulted, caught, calls, stdout, outfile,
                    lenVars, chunkVars, csvVars >>

\* One call of the pipeline: it returns a summary or raises.
Inference(call) ==
    LET k == Len(calls) + 1
    IN  \/ \E out \in Summaries :
             /\ calls' = Append(calls, [call |-> call, ok |-> TRUE, out |-> out])
             /\ ops' = Append(ops, Op("inference", "", k, TRUE))
             /\ UNCHANGED << raised, exitKind, message >>
        \/ /\ calls' = Append(calls, [call |-> call, ok |-> FALSE, out |-> << >>])
           /\ ops' = Append(ops, Op("inference", "", k, FALSE))
           /\ raised' = Append(raised, Err("RuntimeError", "inference", "inference failed"))
           /\ Die(Err("RuntimeError", "inference", "inference failed"))
           /\ UNCHANGED drv

\* The call just made.
LastCall == calls'[Len(calls')]

\* summarise_text, lines 44-53: the single pass.
SummariseSingle ==
    /\ pc = "single"
    /\ Inference(single_call(text, args))
    /\ LastCall.ok => /\ drv' = [drv EXCEPT !.result = LastCall.out]
                      /\ pc' = "returned"
    /\ UNCHANGED << args, raw, text, consulted, caught, stdout, outfile,
                    lenVars, chunkVars, csvVars >>

\* summarise_text, lines 19-30: the next chunk is summarised.
SummariseChunk ==
    /\ pc = "chunks"
    /\ Len(drv.partials) < Len(drv.parts)
    /\ Inference(chunk_call(drv.parts[Len(drv.partials) + 1], args))
    /\ LastCall.ok => /\ drv' = [drv EXCEPT !.partials = Append(@, LastCall.out)]
                      /\ pc' = "chunks"
    /\ UNCHANGED << args, raw, text, consulted, caught, stdout, outfile,
                    lenVars, chunkVars, csvVars >>

\* summarise_text, lines 31-42: the final pass, after the last chunk.
SummariseFinal ==
    /\ pc = "chunks"
    /\ Len(drv.partials) = Len(drv.parts)
    /\ Inference(final_call(drv.partials, args))
    /\ LastCall.ok => /\ drv' = [drv EXCEPT !.result = LastCall.out]
                      /\ pc' = "returned"
    /\ UNCHANGED << args, raw, text, consulted, caught, stdout, outfile,
                    lenVars, chunkVars, csvVars >>

\* main, lines 38-42: write the summary to the file, or print it.
Output ==
    /\ pc = "returned"
    /\ IF Truthy(args.out)
       THEN /\ outfile' = Some(drv.result)
            /\ stdout' = Append(stdout, << "Summary written to", args.out[1] >>)
       ELSE /\ stdout' = Append(stdout, drv.result)
            /\ UNCHANGED outfile
    /\ pc' = "done"
    /\ exitKind' = "ok"
    /\ UNCHANGED << args, raw, text, consulted, ops, raised, caught, message, drv,
                    calls, lenVars, chunkVars, csvVars >>

Next ==
    \/ LoadInput
    \/ SummariseStart
    \/ SummariseSingle
    \/ SummariseChunk
    \/ SummariseFinal
    \/ Output

Spec == Init /\ [][Next]_vars

(***************************************************************************)
(* summarise_text called once on a text of up to MaxChunks chunks and one  *)
(* word.                                                                   *)
(***************************************************************************)
\* n words separated by single spaces; the words cycle through b, w, a, so
\* that the chunks of a text differ from one another.
DriverText(n) ==
    [i \in 1..(IF n = 0 THEN 0 ELSE 2 * n - 1) |->
        IF i % 2 = 0 THEN " "
        ELSE IF ((i + 1) \div 2) % 3 = 1 THEN "b"
        ELSE IF ((i + 1) \div 2) % 3 = 2 THEN "w"
        ELSE "a"]

DriverTexts ==
    {DriverText(n) : n \in {0, 1} \cup {ChunkWords * k + d : k \in 1..MaxChunks, d \in {0, 1}}}

InitSummarise ==
    /\ args \in [text : {Nothing}, file : {Nothing}, url : {Nothing},
                 beams : {2, 6}, no_repeat : {2, 5}, short : BOOLEAN,
                 out : {Nothing}]
    /\ text \in DriverTexts
    /\ pc = "summarise" /\ raw = Nothing /\ consulted = {}
    /\ ops = << >> /\ raised = << >> /\ caught = << >>
    /\ exitKind = "none" /\ message = ""
    /\ drv = [idle |-> TRUE] /\ calls = << >>
    /\ stdout = << >> /\ outfile = Nothing
    /\ lens = IdleLens /\ chunker = IdleChunker /\ csvrun = IdleCsv

NextSummarise ==
    \/ SummariseStart
    \/ SummariseSingle
    \/ SummariseChunk
    \/ SummariseFinal

SpecSummarise == InitSummarise /\ [][NextSummarise]_vars

(***************************************************************************)
(* Properties of auto_lengths (SpecLengths).                               *)
(***************************************************************************)
Clamp(x, lo, hi) == IF x < lo THEN lo ELSE IF x > hi THEN hi ELSE x

\* The word count of a generated text: the n of MakeText(n, sep).
WordsOf(t) == (Len(t) + 1) \div 2

LensDone == lens.pc = "done"

\* C2: for every word count n >= 0 and both values of the short-bias flag,
\* auto_lengths returns (max_len, min_len) with min_len < max_len and
\* min_len >= 16.
C2_MinBelowMax ==
    LensDone => /\ lens.n = WordsOf(lens.text)
                /\ lens.out[2] < lens.out[1]
                /\ lens.out[2] >= 16

\* A 50-word text was measured, as in test_auto_lengths_basic.
C2_Witness == LensDone /\ lens.n = 50 /\ lens.out[1] > lens.out[2]

\* C3: if the flag is set or n < 300, max_len = clamp(int(n*0.6+30), 32, 160)
\* and min_len = clamp(int(n*0.3+12), 16, max_len-8), hence max_len <= 160;
\* otherwise the result is exactly (180, 60).
C3_Formula ==
    LensDone =>
        LET n == WordsOf(lens.text)
            max_len == lens.out[1]
            min_len == lens.out[2]
        IN  IF lens.short_cut \/ n < 300
            THEN /\ max_len = Clamp((6 * n + 300) \div 10, 32, 160)
                 /\ min_len = Clamp((3 * n + 120) \div 10, 16, max_len - 8)
                 /\ max_len <= 160
            ELSE max_len = 180 /\ min_len = 60

\* Both branches happen: a long text with the flag set whose min_len is cut
\* to max_len - 8.
C3_Witness ==
    /\ LensDone /\ lens.short_cut /\ lens.n >= 300
    /\ lens.out = << 160, 152 >>

\* C10: the values computed before the final check already satisfy
\* min_len <= max_len - 8, so the final check never replaces min_len and the
\* returned pair keeps a gap of at least 8.
C10_GapBeforeCheck ==
    LensDone => /\ lens.pre[2] <= lens.pre[1] - 8
                /\ ~lens.fixed
                /\ lens.out = lens.pre
                /\ lens.out[1] - lens.out[2] >= 8

\* The gap is exactly 8 somewhere.
C10_Witness == LensDone /\ lens.out[1] - lens.out[2] = 8

(***************************************************************************)
(* Properties of chunk_text (SpecChunk).                                   *)
(***************************************************************************)
ChunkDone == chunker.pc = "done"

WordCount(t) == Len(split(t))

RECURSIVE Flatten(_)
Flatten(ss) == IF ss = << >> THEN << >> ELSE Head(ss) \o Flatten(Tail(ss))

\* C4: every chunk holds at most t words, every chunk but the last exactly
\* t, the last is not empty, and there are ceil(w/t) chunks; 1000 words
\* with t = 200 give 5 chunks of 200 words, 1001 words give 6 chunks, the
\* last of 1 word, and 0 words give no chunk.
C4_ChunkSizes ==
    ChunkDone =>
        LET out == chunker.out
            t == chunker.target_words
            w == WordCount(chunker.text)
            k == Len(out)
        IN  /\ \A i \in 1..k : WordCount(out[i]) <= t
            /\ \A i \in 1..(k - 1) : WordCount(out[i]) = t
            /\ k > 0 => WordCount(out[k]) >= 1
            /\ k = (w + t - 1) \div t
            /\ w = 0 => out = << >>
            /\ (w = 1000 /\ t = 200) => k = 5 /\ WordCount(out[5]) = 200
            /\ (w = 1001 /\ t = 200) => k = 6 /\ WordCount(out[6]) = 1

\* The 1001-word text was chunked.
C4_Witness ==
    /\ ChunkDone /\ chunker.target_words = TestTarget
    /\ Len(chunker.out) = 6 /\ chunker.out[6] = << "w" >>

\* C5: the chunks partition the word sequence of the input: the words of
\* the chunks, in output order, are exactly the whitespace-split words of
\* the input, and each chunk is its words joined by single spaces.
C5_Partition ==
    ChunkDone =>
        LET out == chunker.out
        IN  /\ Flatten([i \in 1..Len(out) |-> split(out[i])]) = split(chunker.text)
            /\ \A i \in 1..Len(out) : out[i] = join(" ", split(out[i]))

\* A text whose whitespace is not single spaces was cut into several chunks.
C5_Witness ==
    /\ ChunkDone /\ Len(chunker.out) >= 2
    /\ chunker.text = << "a", "\n", " ", "b" >>

(***************************************************************************)
(* Properties of read_csv_file (SpecCsv).                                  *)
(***************************************************************************)
CsvDone == csvrun.pc = "done"

\* The non-empty cells of a row, stripped, joined by single spaces.
RowText(row) ==
    LET idx == {i \in 1..Len(row) : strip(row[i]) # << >>}
        Nth(k) == CHOOSE i \in idx : Cardinality({j \in idx : j <= i}) = k
    IN  join(" ", [k \in 1..Cardinality(idx) |-> strip(row[Nth(k)])])

IsBlankRow(row) == \A i \in 1..Len(row) : strip(row[i]) = << >>

\* The rows with at least one non-empty cell, in order.
NonBlankRows(rows) == SelectSeq(rows, LAMBDA r : ~IsBlankRow(r))

\* C9 as stated: one output line per row with a non-empty cell; fully blank
\* rows are skipped and contribute no line.
C9_BlankRowsSkipped ==
    CsvDone =>
        LET kept == NonBlankRows(csvrun.rows)
        IN  csvrun.out = join("\n", [i \in 1..Len(kept) |-> RowText(kept[i])])

\* C9 as amended: one output line per row read, in row order, each the
\* row's non-empty stripped cells joined by single spaces; a fully blank row
\* is kept as an empty line.
C9_OneLinePerRow ==
    CsvDone =>
        LET rows == csvrun.rows
        IN  csvrun.out = join("\n", [i \in 1..Len(rows) |-> RowText(rows[i])])

\* A file with a blank row before a row with text was read.
C9_Witness ==
    /\ CsvDone
    /\ csvrun.rows = << << << " " >>, << >> >>, << << " ", "b" >>, << "a" >> >> >>
    /\ csvrun.out = << "\n", "b", " ", "a" >>

(***************************************************************************)
(* Properties of summarise_text (SpecSummarise).                           *)
(***************************************************************************)
ExpectedCall(input, bounds, num_beams, no_repeat) ==
    [input |-> input, max_length |-> bounds[1], min_length |-> bounds[2],
     do_sample |-> FALSE, num_beams |-> num_beams,
     no_repeat_ngram_size |-> no_repeat, early_stopping |-> TRUE]

AtLeast(lo, x) == IF x < lo THEN lo ELSE x

\* C1: when the token count does not exceed the tokenizer's maximum, the
\* pipeline is called once, on the whole text, with auto_lengths(text,
\* short_flag), beams and no_repeat, and its result is returned; otherwise it
\* is called once per chunk of chunk_text(text, 350), in chunk order, with
\* auto_lengths(chunk, short_flag), beams and no_repeat, and then once more on
\* the partial summaries joined by single spaces, with auto_lengths(combined,
\* True), max(4, beams) and max(3, no_repeat), whose result is returned.
C1_CallSequence ==
    (calls # << >> \/ pc \in {"single", "chunks", "returned"}) =>
        LET parts == chunk_text(text, 350)
            k == Len(parts)
            n == Len(calls)
            fits == drv.tokens <= drv.max_tokens
            total == IF fits THEN 1 ELSE k + 1
            Expected(i) ==
                IF fits
                THEN ExpectedCall(text, auto_lengths(text, args.short),
                                  args.beams, args.no_repeat)
                ELSE IF i <= k
                THEN ExpectedCall(parts[i], auto_lengths(parts[i], args.short),
                                  args.beams, args.no_repeat)
                ELSE LET combined == join(" ", [j \in 1..k |-> calls[j].out])
                     IN  ExpectedCall(combined, auto_lengths(combined, TRUE),
                                      AtLeast(4, args.beams), AtLeast(3, args.no_repeat))
        IN  /\ n <= total
            /\ \A i \in 1..n : calls[i].call = Expected(i)
            /\ \A i \in 1..(n - 1) : calls[i].ok
            /\ pc = "returned" <=> (n = total /\ calls[n].ok)
            /\ pc = "returned" => drv.result = calls[n].out

\* A text of three chunks was summarised with 2 beams: four calls.
C1_Witness ==
    /\ pc = "returned" /\ args.beams = 2 /\ args.no_repeat = 2
    /\ drv.tokens > drv.max_tokens
    /\ Len(drv.parts) = 3 /\ Len(calls) = 4
    /\ calls[4].call.input = << "s", " ", "s", " ", "t", " ", "s" >>

(***************************************************************************)
(* Properties of the command line run (Spec).                              *)
(***************************************************************************)
Given(opt) == opt # Nothing
GivenNonEmpty(opt) == Len(opt) = 1 /\ Len(opt[1]) > 0

Loaded == pc # "main"

\* No operation belongs to a source other than src.
OnlyTouches(src) ==
    /\ consulted = {src}
    /\ \A i \in 1..Len(ops) :
         /\ ops[i].op = "http_get" => src = "url"
         /\ ops[i].op = "exists" => src = "file"
    /\ raw # Nothing =>
         (src = "text" => raw = args.text)

\* C6 as stated: exactly one source is consulted: the URL if one is given,
\* else the file if a path is given, else the literal text if given, else
\* standard input, which is read only when none of the three is given.
C6_PrecedenceGiven ==
    Loaded =>
        OnlyTouches(IF Given(args.url) THEN "url"
                    ELSE IF Given(args.file) THEN "file"
                    ELSE IF Given(args.text) THEN "text"
                    ELSE "stdin")

\* C6 as amended: the same precedence, an argument counting as given only
\* when it is a non-empty string.
C6_PrecedenceNonEmpty ==
    Loaded =>
        OnlyTouches(IF GivenNonEmpty(args.url) THEN "url"
                    ELSE IF GivenNonEmpty(args.file) THEN "file"
                    ELSE IF GivenNonEmpty(args.text) THEN "text"
                    ELSE "stdin")

\* All three arguments were given and the URL was fetched and summarised.
C6_Witness ==
    /\ pc = "done" /\ consulted = {"url"}
    /\ GivenNonEmpty(args.url) /\ GivenNonEmpty(args.file) /\ GivenNonEmpty(args.text)

\* C7: when the selected source yields a text that is empty after stripping
\* (standard input included, when no source was given), the run ends with a
\* message and a non-zero exit, summarise_text is never invoked and nothing
\* is printed or written.
C7_EmptyInputExits ==
    (Loaded /\ raw # Nothing /\ strip(raw[1]) = << >>) =>
        /\ pc = "exit"
        /\ exitKind = "SystemExit"
        /\ ExitCode(exitKind) # 0
        /\ message = (IF consulted = {"stdin"} THEN "No input provided."
                      ELSE "Input is empty after parsing.")
        /\ \A i \in 1..Len(ops) : ops[i].op \notin {"load", "inference"}
        /\ calls = << >>
        /\ stdout = << >>
        /\ outfile = Nothing

\* A file holding only whitespace was read.
C7_Witness ==
    /\ pc = "exit" /\ consulted = {"file"} /\ raw = Some(<< " " >>)
    /\ message = "Input is empty after parsing."

IsTrafilaturaImport(o) == o.op = "import" /\ o.what = "trafilatura"

\* Each failed operation (but a failed import of trafilatura, when that is
\* exempt) is the last operation
\* attempted, its error is the last raised, the process has ended with that
\* error, and nothing was printed or written; no operation was attempted
\* twice.
FailuresAreFatal(trafilaturaExempt) ==
    /\ \A i \in 1..Len(ops) :
         (~ops[i].ok /\ ~(trafilaturaExempt /\ IsTrafilaturaImport(ops[i]))) =>
            /\ i = Len(ops)
            /\ pc = "exit"
            /\ exitKind = "exception"
            /\ ExitCode(exitKind) # 0
            /\ raised # << >>
            /\ message = raised[Len(raised)].msg
            /\ stdout = << >>
            /\ outfile = Nothing
    /\ \A i, j \in 1..Len(ops) :
         (ops[i].op = ops[j].op /\ ops[i].what = ops[j].what /\ ops[i].n = ops[j].n)
            => i = j

\* C8 as stated: no failure is caught or replaced by another path: every
\* failed operation was attempted once, ends the process, and no summary is
\* printed or written after it.
C8_NoRecoveryAnywhere ==
    /\ caught = << >>
    /\ FailuresAreFatal(FALSE)

\* C8 as amended: the one exception is a missing trafilatura in read_url,
\* whose ImportError is caught and replaced by the bs4 extraction; every
\* other failure is attempted once, is not caught and ends the process.
C8_NoRecoveryButTrafilatura ==
    /\ \A i \in 1..Len(caught) : caught[i].op = "trafilatura"
    /\ FailuresAreFatal(TRUE)
    /\ \A i \in 1..Len(ops) :
         (~ops[i].ok /\ IsTrafilaturaImport(ops[i])) =>
            /\ caught # << >>
            /\ i < Len(ops) /\ ops[i + 1].op = "import" /\ ops[i + 1].what = "bs4"

\* trafilatura was missing, the bs4 path was taken, and bs4 was missing too.
C8_Witness ==
    /\ pc = "exit" /\ exitKind = "exception"
    /\ caught = << ImportErr("trafilatura") >>
    /\ raised = << ImportErr("trafilatura"), ImportErr("bs4") >>
    /\ stdout = << >> /\ outfile = Nothing

====
